---- MODULE Spec2Model ----
(***************************************************************************)
(* Model of src/src/parser/mod.rs (md.rs): the byte cursor, the scan       *)
(* primitives of MarkdownParser, the ParseResult algebra, the Iterator     *)
(* driver with its event queue, fork and fix_links.                        *)
(*                                                                         *)
(* Positions are zero-based as in the source; buf[p] of the source is      *)
(* b[p + 1] here because TLA+ sequences are one-based.                     *)
(***************************************************************************)
EXTENDS Integers, Sequences, FiniteSets, TLC

(***************************************************************************)
(* Bounds of the model.                                                    *)
(***************************************************************************)
MaxLen == 3
MaxIndent == 4
MaxAlts == 4
MaxTok == 3
MaxEnq == 2
MaxEngines == 3
MaxLook == 3
MaxMarks == 2

(***************************************************************************)
(* Bytes, written as one-character strings.  SP and NL are the two bytes   *)
(* the source names (b' ', b'\n'); D1 and LA are a digit and a letter.     *)
(***************************************************************************)
SP == " "
NL == "\n"
D1 == "1"
LA == "a"
Bytes == {SP, NL, D1, LA}

RECURSIVE SeqsUpTo(_, _)
SeqsUpTo(S, n) ==
    IF n = 0 THEN {<< >>}
    ELSE LET shorter == SeqsUpTo(S, n - 1)
         IN  shorter \cup {Append(s, x) : s \in {t \in shorter : Len(t) = n - 1}, x \in S}

Spaces(i) == [j \in 1..i |-> SP]

\* Buffers handed to MarkdownParser::new: up to MaxIndent leading spaces
\* followed by up to MaxLen arbitrary bytes.
Buffers == {Spaces(i) \o w : i \in 0..MaxIndent, w \in SeqsUpTo(Bytes, MaxLen)}

\* ByteMatcher instances: a digit predicate, the literal b' ' of skip_spaces,
\* the set [b' ', b'\n'] of skip_spaces_and_newlines, an alphanumeric predicate.
Matchers == {{D1}, {SP}, {SP, NL}, {D1, LA}}

matches(m, c) == c \in m

(***************************************************************************)
(* ParseResult                                                             *)
(***************************************************************************)
Success(v) == [tag |-> "Success", val |-> v]
NoParse == [tag |-> "NoParse", val |-> << >>]
End == [tag |-> "End", val |-> << >>]
\* panic!: the process aborts; no value is produced.
Panic == [tag |-> "Panic", val |-> << >>]
Unit == << >>

\* Option<T>; Aborted stands for a call that panicked instead of returning.
Some(v) == [tag |-> "Some", val |-> v]
None == [tag |-> "None", val |-> "-"]
Aborted == [tag |-> "Panic", val |-> "-"]

\* No call has been made on any engine yet.
NotInvoked == [tag |-> "-", val |-> "-"]
NoCall == [name |-> "new", eng |-> 1, arg |-> "-", invoked |-> FALSE, pb |-> NotInvoked, out |-> None]

VARIABLES
    buf,        \* Cursor.buf of the engine under scan
    pos,        \* Cursor.pos
    op,         \* the last primitive called, with its argument
    entry,      \* Cursor.pos when that primitive was entered
    res,        \* what it returned
    altChain,   \* the outcomes of the alternatives handed to first_of!
    altTrace,   \* the alternatives first_of! evaluated, in order
    altRes,     \* what first_of! returned
    engines,    \* the MarkdownParser values alive, the root first
    last,       \* the last call on an engine and what it returned
    marks,      \* the Mark values alive on the cursor, in creation order
    nested      \* every mark so far was resolved while it was the youngest

scanVars == <<buf, pos, op, entry, res, marks, nested>>
altVars == <<altChain, altTrace, altRes>>
engineVars == <<engines, last>>
vars == <<buf, pos, op, entry, res, altChain, altTrace, altRes, engines, last, marks, nested>>

(***************************************************************************)
(* Cursor                                                                  *)
(***************************************************************************)
available(b, p) == p < Len(b)

\* Deref for Cursor: the byte at the current position.
deref(b, p) == b[p + 1]

advance(p, n) == p + n

retract(p, n) == IF n > p THEN 0 ELSE p - n

\* Cursor::next without the test of available().
next_Unchecked(b, p) == advance(p, 1)

\* Cursor::next: the position after the call.
next(b, p) == IF available(b, p) THEN advance(p, 1) ELSE p

prev(p) == retract(p, 1)

\* A Drop for Mark that never restores the position.
MarkDrop_NoRestore(markPos, cancelled, p) == p

\* A Drop for Mark that never moves the cursor forward.
MarkDrop_OnlyBackwards(markPos, cancelled, p) ==
    IF ~cancelled /\ markPos < p THEN markPos ELSE p

\* Drop for Mark: the cursor position after a mark taken at markPos goes
\* out of scope while the cursor is at p.
MarkDrop(markPos, cancelled, p) == IF ~cancelled THEN markPos ELSE p

\* Cursor::mark
mark(p) == [pos |-> p, cancelled |-> FALSE]

\* Mark::cancel that leaves the flag as it was.
cancel_FlagNotSet(m) == m

\* Mark::cancel, up to the drop of self that ends it.
cancel(m) == [m EXCEPT !.cancelled = TRUE]

\* Cursor::slice_until_now_from: &buf[pm.pos .. pos - 1].  pos - 1 on
\* pos = 0 either aborts (checked arithmetic) or wraps to usize::MAX, which
\* is past the buffer's end: the slice aborts in both builds.  A slice whose
\* start exceeds its end aborts as well.
slice_until_now_from(b, pm, p) ==
    IF p = 0 \/ pm > p - 1 \/ p - 1 > Len(b)
    THEN [ok |-> FALSE, s |-> << >>]
    ELSE [ok |-> TRUE, s |-> SubSeq(b, pm + 1, p - 1)]

(***************************************************************************)
(* Scan primitives.  Each operator returns the result and the cursor       *)
(* position the call leaves behind.                                        *)
(***************************************************************************)
Ret(r, p) == [res |-> r, pos |-> p]

\* try_parse_empty_line returning Success at the newline without m.cancel().
RECURSIVE EmptyLineLoop_NoCancel(_, _)
EmptyLineLoop_NoCancel(b, p) ==
    IF ~available(b, p) THEN [res |-> End, pos |-> p, cancelled |-> FALSE]
    ELSE LET c == deref(b, p)
             q == advance(p, 1)
         IN  IF c = SP THEN EmptyLineLoop_NoCancel(b, q)
             ELSE IF c = NL THEN [res |-> Success(Unit), pos |-> q, cancelled |-> FALSE]
             ELSE [res |-> NoParse, pos |-> q, cancelled |-> FALSE]

\* The loop of try_parse_empty_line; cancelled tells whether m.cancel() ran.
RECURSIVE EmptyLineLoop(_, _)
EmptyLineLoop(b, p) ==
    IF ~available(b, p) THEN [res |-> End, pos |-> p, cancelled |-> FALSE]
    ELSE LET c == deref(b, p)
             q == advance(p, 1)
         IN  IF c = SP THEN EmptyLineLoop(b, q)
             ELSE IF c = NL THEN [res |-> Success(Unit), pos |-> q, cancelled |-> TRUE]
             ELSE [res |-> NoParse, pos |-> q, cancelled |-> FALSE]

try_parse_empty_line(b, p) ==
    LET r == EmptyLineLoop(b, p)
    IN  Ret(r.res, MarkDrop(p, r.cancelled, r.pos))

\* try_skip_initial_spaces with the limit off by one: four spaces pass.
RECURSIVE InitialSpacesLoop_FourPass(_, _, _)
InitialSpacesLoop_FourPass(b, p, n) ==
    IF ~available(b, p) THEN [res |-> End, pos |-> p, cancelled |-> FALSE]
    ELSE IF n > 4 THEN [res |-> NoParse, pos |-> p, cancelled |-> FALSE]
    ELSE IF deref(b, p) = SP THEN InitialSpacesLoop_FourPass(b, next(b, p), n + 1)
    ELSE [res |-> Success(Unit), pos |-> p, cancelled |-> TRUE]

\* try_skip_initial_spaces with the indent limit tested before the end of
\* input: four spaces that end the buffer answer NoParse.
RECURSIVE InitialSpacesLoop_LimitFirst(_, _, _)
InitialSpacesLoop_LimitFirst(b, p, n) ==
    IF n >= 4 THEN [res |-> NoParse, pos |-> p, cancelled |-> FALSE]
    ELSE IF ~available(b, p) THEN [res |-> End, pos |-> p, cancelled |-> FALSE]
    ELSE IF deref(b, p) = SP THEN InitialSpacesLoop_LimitFirst(b, next(b, p), n + 1)
    ELSE [res |-> Success(Unit), pos |-> p, cancelled |-> TRUE]

\* The loop of try_skip_initial_spaces with its counter n.
RECURSIVE InitialSpacesLoop(_, _, _)
InitialSpacesLoop(b, p, n) ==
    IF ~available(b, p) THEN [res |-> End, pos |-> p, cancelled |-> FALSE]
    ELSE IF n >= 4 THEN [res |-> NoParse, pos |-> p, cancelled |-> FALSE]
    ELSE IF deref(b, p) = SP THEN InitialSpacesLoop(b, next(b, p), n + 1)
    ELSE [res |-> Success(Unit), pos |-> p, cancelled |-> TRUE]

try_skip_initial_spaces(b, p) ==
    LET r == InitialSpacesLoop(b, p, 0)
    IN  Ret(r.res, MarkDrop(p, r.cancelled, r.pos))

try_read_char(b, p, expected) ==
    IF available(b, p)
    THEN IF deref(b, p) = expected
         THEN Ret(Success(Unit), advance(p, 1))
         ELSE Ret(NoParse, prev(advance(p, 1)))
    ELSE Ret(End, p)

\* The loop of lookahead_chars: the count left and the position reached.
RECURSIVE LookaheadLoop(_, _, _, _)
LookaheadLoop(b, p, n, c) ==
    IF n > 0 /\ available(b, p)
    THEN IF deref(b, p) = c THEN LookaheadLoop(b, next(b, p), n - 1, c)
         ELSE [n |-> n, pos |-> p]
    ELSE [n |-> n, pos |-> p]

\* bool
Bool(v) == [tag |-> IF v THEN "true" ELSE "false", val |-> << >>]

\* lookahead_chars whose mark is dropped at once instead of at the return.
lookahead_chars_NoRollback(b, p, n, c) ==
    LET r == LookaheadLoop(b, p, n, c)
    IN  Ret(Bool(r.n = 0), r.pos)

\* lookahead_chars: n == 0 is evaluated, then _m goes out of scope.
lookahead_chars(b, p, n, c) ==
    LET r == LookaheadLoop(b, p, n, c)
    IN  Ret(Bool(r.n = 0), MarkDrop(p, FALSE, r.pos))

\* read_line stopping in front of the newline instead of behind it.
RECURSIVE ReadLineLoop_BeforeNewline(_, _, _)
ReadLineLoop_BeforeNewline(b, p, dest) ==
    LET c == deref(b, p)
        q == next(b, p)
        d == Append(dest, c)
    IN  IF c = NL THEN [pos |-> p, dest |-> dest]
        ELSE IF available(b, q) THEN ReadLineLoop_BeforeNewline(b, q, d)
        ELSE [pos |-> q, dest |-> d]

\* The do-while loop shared by read_line and read_line_to; dest collects
\* the bytes read_line_to pushes.
RECURSIVE ReadLineLoop(_, _, _)
ReadLineLoop(b, p, dest) ==
    LET c == deref(b, p)
        q == next(b, p)
        d == Append(dest, c)
    IN  IF c = NL THEN [pos |-> q, dest |-> d]
        ELSE IF available(b, q) THEN ReadLineLoop(b, q, d)
        ELSE [pos |-> q, dest |-> d]

read_line_to(b, p) ==
    IF ~available(b, p) THEN Ret(End, p)
    ELSE LET r == ReadLineLoop(b, p, << >>)
         IN  Ret(Success(r.dest), r.pos)

read_line(b, p) ==
    IF ~available(b, p) THEN Ret(End, p)
    ELSE LET r == ReadLineLoop(b, p, << >>)
         IN  Ret(Success(Unit), r.pos)

\* What parse returns for the slice taken at cursor position p.
ParseSlice(b, pm, p, atEnd) ==
    LET sl == slice_until_now_from(b, pm, p)
    IN  IF ~sl.ok THEN Ret(Panic, p)
        ELSE IF ~atEnd /\ sl.s = << >> THEN Ret(NoParse, p)
        ELSE Ret(Success(sl.s), p)

\* The do-while loop of parse.
RECURSIVE ParseLoop(_, _, _, _)
ParseLoop(b, pm, p, m) ==
    IF matches(m, deref(b, p))
    THEN LET q == next(b, p)
         IN  IF available(b, q) THEN ParseLoop(b, pm, q, m)
             ELSE ParseSlice(b, pm, q, TRUE)
    ELSE ParseSlice(b, pm, p, FALSE)

parse(b, p, m) ==
    IF ~available(b, p) THEN Ret(End, p)
    ELSE ParseLoop(b, p, p, m)

\* The do-while loop of skip.
RECURSIVE SkipLoop(_, _, _)
SkipLoop(b, p, m) ==
    IF matches(m, deref(b, p))
    THEN LET q == next(b, p)
         IN  IF available(b, q) THEN SkipLoop(b, q, m) ELSE q
    ELSE p

skip(b, p, m) ==
    IF ~available(b, p) THEN Ret(End, p)
    ELSE Ret(Success(Unit), SkipLoop(b, p, m))

(***************************************************************************)
(* ParseResult::or_else and first_of!.  An evaluation is a record of the   *)
(* outcome and of the alternatives (by index) that were evaluated for it.  *)
(***************************************************************************)
Outcomes == {Success(<<1>>), Success(<<2>>), NoParse, End}

\* or_else that also falls through to the alternative on End.
or_else_EndFallsThrough(self, f) ==
    IF self.res.tag \in {"NoParse", "End"}
    THEN [res |-> f.res, trace |-> self.trace \o f.trace]
    ELSE self

\* self.or_else(f): self has been evaluated; f stands for the closure, whose
\* evaluation is counted only when or_else calls it.
or_else(self, f) ==
    IF self.res.tag = "NoParse"
    THEN [res |-> f.res, trace |-> self.trace \o f.trace]
    ELSE self

\* first_of!(e_i, e_i+1, ...) over the alternatives chain[i..].
RECURSIVE first_of(_, _)
first_of(chain, i) ==
    LET e == [res |-> chain[i], trace |-> <<i>>]
    IN  IF i = Len(chain) THEN e
        ELSE or_else(e, first_of(chain, i + 1))

(***************************************************************************)
(* Specification of the scan primitives over one engine's cursor.          *)
(***************************************************************************)
NoOp == [name |-> "new", arg |-> {}]

ScanInit ==
    /\ buf \in Buffers
    /\ pos = 0
    /\ op = NoOp
    /\ entry = 0
    /\ res = Success(Unit)
    /\ altChain = << >>
    /\ altTrace = << >>
    /\ altRes = NoParse
    /\ engines = << >>
    /\ last = NoCall
    /\ marks = << >>
    /\ nested = TRUE

\* A call returning r: an aborted process takes no further step.
Call(name, arg, r) ==
    /\ res.tag # "Panic"
    /\ op' = [name |-> name, arg |-> arg]
    /\ entry' = pos
    /\ res' = r.res
    /\ pos' = r.pos
    /\ UNCHANGED <<buf, altChain, altTrace, altRes, engines, last, marks, nested>>

TryParseEmptyLine == Call("try_parse_empty_line", {}, try_parse_empty_line(buf, pos))

TrySkipInitialSpaces == Call("try_skip_initial_spaces", {}, try_skip_initial_spaces(buf, pos))

TryReadChar == \E c \in Bytes : Call("try_read_char", {c}, try_read_char(buf, pos, c))

ReadLineTo == Call("read_line_to", {}, read_line_to(buf, pos))

ReadLine == Call("read_line", {}, read_line(buf, pos))

Parse == \E m \in Matchers : Call("parse", m, parse(buf, pos, m))

Skip == \E m \in Matchers : Call("skip", m, skip(buf, pos, m))

LookaheadChars ==
    \E n \in 0..MaxLook, c \in Bytes :
        Call("lookahead_chars", <<n, c>>, lookahead_chars(buf, pos, n, c))

Next ==
    \/ TryParseEmptyLine
    \/ TrySkipInitialSpaces
    \/ TryReadChar
    \/ ReadLineTo
    \/ ReadLine
    \/ Parse
    \/ Skip
    \/ LookaheadChars

Spec == ScanInit /\ [][Next]_vars

(***************************************************************************)
(* Specification of alternation: first_of! over a chain of alternatives    *)
(* whose outcomes are drawn from Outcomes.                                 *)
(***************************************************************************)
Chains == SeqsUpTo(Outcomes, MaxAlts) \ {<< >>}

AltInit ==
    /\ buf = << >>
    /\ pos = 0
    /\ op = NoOp
    /\ entry = 0
    /\ res = Success(Unit)
    /\ altChain = << >>
    /\ altTrace = << >>
    /\ altRes = NoParse
    /\ engines = << >>
    /\ last = NoCall
    /\ marks = << >>
    /\ nested = TRUE

FirstOf ==
    \E chain \in Chains :
        LET r == first_of(chain, 1)
        IN  /\ altChain' = chain
            /\ altTrace' = r.trace
            /\ altRes' = r.res
            /\ UNCHANGED <<scanVars, engineVars>>

AltNext == FirstOf

SpecAlt == AltInit /\ [][AltNext]_vars

(***************************************************************************)
(* MarkdownParser: the engine, its driver and fork.  The grammar modules   *)
(* (block, inline) and the payloads' FixLinks are outside this file; the   *)
(* engine's buffer is kept here as the sequence of constructs the block    *)
(* grammar recognises, one position per construct:                         *)
(*   "T" a paragraph of plain text                                         *)
(*   "R" a paragraph holding the reference [foo]                           *)
(*   "D" the reference definition [foo]: /url                              *)
(*   "L" a list of two items (one block per item)                          *)
(*   "X" input on which the grammar breaks its contract and answers NoParse*)
(***************************************************************************)
Tokens == {"T", "R", "D", "L", "X"}
Configs == {"default", "custom"}
Label == "foo"
Url == "/url"
EnqBlocks == {"item1", "item2"}

\* Option<LinkMap>
NoTable == [some |-> FALSE, tbl |-> {}]
EmptyTable == [some |-> TRUE, tbl |-> {}]

\* MarkdownParser::new.  root, depth, enq and deq are history fields:
\* whether the engine was made by new, how many forks lead to it, the blocks
\* ever pushed on its queue and the blocks next() has popped from it.
new(buffer) ==
    [buf |-> buffer, pos |-> 0, event_queue |-> << >>, config |-> "default",
     link_map |-> EmptyTable, root |-> TRUE, depth |-> 0, enq |-> << >>, deq |-> << >>]

with_config(self, config) == [self EXCEPT !.config = config]

\* fork handing the child the parent's pending queue.
fork_KeepsQueue(self, buffer) ==
    [buf |-> buffer, pos |-> 0, event_queue |-> self.event_queue, config |-> self.config,
     link_map |-> NoTable, root |-> FALSE, depth |-> self.depth + 1,
     enq |-> << >>, deq |-> << >>]

\* fork handing the child the parent's link table.
fork_InheritsTable(self, buffer) ==
    [buf |-> buffer, pos |-> 0, event_queue |-> << >>, config |-> self.config,
     link_map |-> self.link_map, root |-> FALSE, depth |-> self.depth + 1,
     enq |-> << >>, deq |-> << >>]

fork(self, buffer) ==
    [buf |-> buffer, pos |-> 0, event_queue |-> << >>, config |-> self.config,
     link_map |-> NoTable, root |-> FALSE, depth |-> self.depth + 1,
     enq |-> << >>, deq |-> << >>]

enqueue_event(self, block) ==
    [self EXCEPT !.event_queue = Append(@, block), !.enq = Append(@, block)]

\* FixLinks::fix_links_opt of a paragraph: the reference is resolved when a
\* table is given and defines the label, and stays literal text otherwise.
fix_links_opt(fl, table) ==
    IF fl = "ref:foo" /\ table.some /\ \E d \in table.tbl : d[1] = Label
    THEN "link:" \o (CHOOSE d \in table.tbl : d[1] = Label)[2]
    ELSE fl

fix_links(self, fl) == fix_links_opt(fl, self.link_map)

\* A reference definition recognised by the block grammar: the table, when
\* the engine has one, gains the label.
AddDefinition(self) ==
    IF self.link_map.some
    THEN [self EXCEPT !.link_map.tbl = @ \cup {<<Label, Url>>}]
    ELSE self

\* BlockParser::parse_block, the block-grammar entry point: the outcome and
\* the engine as the call leaves it.
RECURSIVE parse_block(_)
parse_block(self) ==
    IF self.pos >= Len(self.buf) THEN [res |-> End, eng |-> self]
    ELSE LET t == self.buf[self.pos + 1]
             stepped == [self EXCEPT !.pos = @ + 1]
         IN  CASE t = "T" -> [res |-> Success("text"), eng |-> stepped]
               [] t = "R" -> [res |-> Success(fix_links(self, "ref:foo")), eng |-> stepped]
               [] t = "D" -> parse_block(AddDefinition(stepped))
               [] t = "L" -> [res |-> Success("item1"), eng |-> enqueue_event(stepped, "item2")]
               [] OTHER   -> [res |-> NoParse, eng |-> self]

\* to_option forwarding NoParse as the end of the sequence.
to_option_ForwardNoParse(r) ==
    IF r.tag = "Success" THEN Some(r.val) ELSE None

\* ParseResult::to_option
to_option(r) ==
    CASE r.tag = "Success" -> Some(r.val)
      [] r.tag = "End"     -> None
      [] OTHER             -> Aborted

\* next() draining the queue from its back.
Iterator_next_PopBack(self) ==
    IF self.event_queue # << >>
    THEN LET n == Len(self.event_queue)
         IN  [out |-> Some(self.event_queue[n]),
              eng |-> [self EXCEPT !.event_queue = SubSeq(@, 1, n - 1),
                                   !.deq = Append(@, self.event_queue[n])],
              invoked |-> FALSE, pb |-> NotInvoked]
    ELSE LET r == parse_block(self)
         IN  [out |-> to_option(r.res), eng |-> r.eng, invoked |-> TRUE,
              pb |-> [tag |-> r.res.tag,
                      val |-> IF r.res.tag = "Success" THEN r.res.val ELSE "-"]]

\* Iterator::next: what it returns, the engine afterwards, whether
\* parse_block was called and with which outcome.
Iterator_next(self) ==
    IF self.event_queue # << >>
    THEN [out |-> Some(Head(self.event_queue)),
          eng |-> [self EXCEPT !.event_queue = Tail(@), !.deq = Append(@, Head(self.event_queue))],
          invoked |-> FALSE, pb |-> NotInvoked]
    ELSE LET r == parse_block(self)
         IN  [out |-> to_option(r.res), eng |-> r.eng, invoked |-> TRUE,
              pb |-> [tag |-> r.res.tag,
                      val |-> IF r.res.tag = "Success" THEN r.res.val ELSE "-"]]

(***************************************************************************)
(* Calls on the engines.                                                   *)
(***************************************************************************)
DriverInit(buffers) ==
    /\ buf = << >>
    /\ pos = 0
    /\ op = NoOp
    /\ entry = 0
    /\ res = Success(Unit)
    /\ altChain = << >>
    /\ altTrace = << >>
    /\ altRes = NoParse
    /\ \E b \in buffers : engines = <<new(b)>>
    /\ last = NoCall
    /\ marks = << >>
    /\ nested = TRUE

Engines == 1..Len(engines)

\* A call on engine e that leaves it as eng; nothing runs after an abort.
EngineCall(name, e, arg, eng, invoked, pb, out) ==
    /\ last.out.tag # "Panic"
    /\ engines' = [engines EXCEPT ![e] = eng]
    /\ last' = [name |-> name, eng |-> e, arg |-> arg, invoked |-> invoked, pb |-> pb, out |-> out]
    /\ UNCHANGED <<scanVars, altVars>>

\* with_config is public and takes the engine by value: the builder step on
\* the engine new returned, before it is used.
WithConfig ==
    \E e \in Engines, c \in Configs :
        /\ engines[e].root
        /\ engines[e].pos = 0
        /\ engines[e].enq = << >>
        /\ EngineCall("with_config", e, c, with_config(engines[e], c), FALSE, NotInvoked, None)

\* fork over a sub-region; the region is whatever slice the grammar rule
\* carved out (fork takes any &[u8]).
Fork(regions) ==
    \E e \in Engines, region \in regions :
        /\ last.out.tag # "Panic"
        /\ Len(engines) < MaxEngines
        /\ engines' = Append(engines, fork(engines[e], region))
        /\ last' = [name |-> "fork", eng |-> e, arg |-> region, invoked |-> FALSE,
                    pb |-> NotInvoked, out |-> None]
        /\ UNCHANGED <<scanVars, altVars>>

\* enqueue_event called by a grammar rule, at most cap blocks per engine.
EnqueueEvent(cap) ==
    \E e \in Engines, b \in EnqBlocks :
        /\ Len(engines[e].enq) < cap
        /\ EngineCall("enqueue_event", e, b, enqueue_event(engines[e], b), FALSE, NotInvoked, None)

IterNext ==
    \E e \in Engines :
        LET r == Iterator_next(engines[e])
        IN  EngineCall("next", e, "-", r.eng, r.invoked, r.pb, r.out)

(***************************************************************************)
(* Specification of the driver: a root engine made by new over any buffer, *)
(* configured, fed by enqueue_event and pulled by next.                    *)
(***************************************************************************)
TokBuffers == SeqsUpTo(Tokens, MaxTok)

EngineInit == DriverInit(TokBuffers)

EnqueueRoot == EnqueueEvent(MaxEnq)

EngineNext ==
    \/ WithConfig
    \/ EnqueueRoot
    \/ IterNext

SpecEngine == EngineInit /\ [][EngineNext]_vars

(***************************************************************************)
(* Specification of forking: the root and the engines forked from it, to   *)
(* any depth, all of them alive and called in any order.                   *)
(***************************************************************************)
ForkBuffers == {<< >>, <<"L">>, <<"D", "R">>}

ForkInit == DriverInit(ForkBuffers)

ForkRegion == Fork(ForkBuffers)

ForkNext ==
    \/ WithConfig
    \/ ForkRegion
    \/ IterNext

SpecFork == ForkInit /\ [][ForkNext]_vars

(***************************************************************************)
(* Specification of the cursor with its marks: the bounded moves, marks    *)
(* created, dropped and cancelled in any order, and the scan primitives.   *)
(***************************************************************************)
MarkBuffers ==
    {<< >>, <<D1, LA>>, <<SP, SP, NL, D1>>, <<SP, SP, SP, SP, SP>>}

RetractBy == {1, 3}

MarkInit ==
    /\ buf \in MarkBuffers
    /\ pos = 0
    /\ op = NoOp
    /\ entry = 0
    /\ res = Success(Unit)
    /\ altChain = << >>
    /\ altTrace = << >>
    /\ altRes = NoParse
    /\ engines = << >>
    /\ last = NoCall
    /\ marks = << >>
    /\ nested = TRUE

\* Cursor::next_byte
next_byte(b, p) ==
    IF available(b, p)
    THEN Ret([tag |-> "Some", val |-> <<deref(b, p)>>], advance(p, 1))
    ELSE Ret([tag |-> "None", val |-> << >>], p)

CursorNext == Call("next", {}, Ret(Bool(available(buf, pos)), next(buf, pos)))

NextByte == Call("next_byte", {}, next_byte(buf, pos))

Prev == Call("prev", {}, Ret(Success(Unit), prev(pos)))

Retract == \E n \in RetractBy : Call("retract", n, Ret(Success(Unit), retract(pos, n)))

Without(sq, i) == SubSeq(sq, 1, i - 1) \o SubSeq(sq, i + 1, Len(sq))

\* let m = cur.mark(): born remembers the position at which it was made.
MarkCreate ==
    /\ res.tag # "Panic"
    /\ Len(marks) < MaxMarks
    /\ marks' = Append(marks, [m |-> mark(pos), born |-> pos])
    /\ op' = [name |-> "mark", arg |-> {}]
    /\ entry' = pos
    /\ res' = Success(Unit)
    /\ UNCHANGED <<buf, pos, nested, altVars, engineVars>>

\* Mark i is resolved, its value being m when its destructor runs.  The
\* call is remembered with the position the mark was made at, the mark's
\* place among the live marks, and, when the call before it dropped an
\* older mark out of order, the position that drop restored (else -1).
Resolve(name, i, m) ==
    /\ res.tag # "Panic"
    /\ pos' = MarkDrop(m.pos, m.cancelled, pos)
    /\ marks' = Without(marks, i)
    /\ nested' = (nested /\ i = Len(marks))
    /\ op' = [name |-> name,
              arg |-> [born |-> marks[i].born, idx |-> i, live |-> Len(marks),
                       after |-> IF op.name = "drop" /\ op.arg.idx < op.arg.live
                                    /\ i >= op.arg.idx
                                 THEN op.arg.born ELSE -1]]
    /\ entry' = pos
    /\ res' = Success(Unit)
    /\ UNCHANGED <<buf, altVars, engineVars>>

\* A mark goes out of scope (or Mark::reset is called on it).
MarkDropAt == \E i \in 1..Len(marks) : Resolve("drop", i, marks[i].m)

\* m.cancel()
MarkCancelAt == \E i \in 1..Len(marks) : Resolve("cancel", i, cancel(marks[i].m))

MarkNext ==
    \/ CursorNext
    \/ NextByte
    \/ Prev
    \/ Retract
    \/ MarkCreate
    \/ MarkDropAt
    \/ MarkCancelAt
    \/ TryParseEmptyLine
    \/ TrySkipInitialSpaces
    \/ TryReadChar
    \/ LookaheadChars
    \/ ReadLineTo
    \/ ReadLine
    \/ Parse
    \/ Skip

SpecMark == MarkInit /\ [][MarkNext]_vars

(***************************************************************************)
(* Properties.                                                             *)
(***************************************************************************)
\* The length of the maximal run of bytes m accepts that starts at p.
RECURSIVE RunLen(_, _, _)
RunLen(b, p, m) ==
    IF p < Len(b) /\ b[p + 1] \in m THEN 1 + RunLen(b, p + 1, m) ELSE 0

\* Every byte from p to the end of b is a space.
AllSpaces(b, p) == \A i \in (p + 1)..Len(b) : b[i] = SP

ScanPrimitives ==
    {"try_parse_empty_line", "try_skip_initial_spaces", "try_read_char",
     "read_line", "read_line_to", "parse", "skip"}

\* C1: parse entered with input available and a maximal matching run of
\* k >= 1 bytes returns Success with exactly those k bytes and leaves the
\* cursor at entry + k.
C1_ParseCapturesRun ==
    LET k == RunLen(buf, entry, op.arg)
    IN  (op.name = "parse" /\ entry < Len(buf) /\ k >= 1)
            => /\ res.tag = "Success"
               /\ res.val = SubSeq(buf, entry + 1, entry + k)
               /\ pos = entry + k

\* C2: parse entered with input available whose first byte the matcher
\* rejects returns NoParse, consumes nothing and does not abort.
C2_ParseNoMatch ==
    (op.name = "parse" /\ entry < Len(buf) /\ ~matches(op.arg, buf[entry + 1]))
        => (res.tag = "NoParse" /\ pos = entry)

\* C3: whenever try_parse_empty_line, try_skip_initial_spaces, try_read_char
\* or parse returns NoParse, the cursor is where it was at entry.
C3_Rollback ==
    (/\ op.name \in {"try_parse_empty_line", "try_skip_initial_spaces", "try_read_char", "parse"}
     /\ res.tag = "NoParse")
        => pos = entry

\* C4 as stated: a scan primitive returns End only if no byte remained at
\* entry, and with a byte available it returns Success or NoParse.
C4_ExhaustedOnlyAtEnd ==
    op.name \in ScanPrimitives
        => /\ res.tag = "End" => entry = Len(buf)
           /\ entry < Len(buf) => res.tag \in {"Success", "NoParse"}

\* C4 amended: try_read_char, read_line, read_line_to, parse and skip return
\* End only if no byte remained at entry; try_parse_empty_line returns End
\* exactly when every byte from the entry position to the end of the buffer
\* is a space (none remaining included), try_skip_initial_spaces exactly when
\* those bytes are all spaces and at most four; with a byte available at
\* entry try_read_char, read_line, read_line_to and skip return Success or
\* NoParse.
C4_ExhaustedCharacterised ==
    /\ (op.name \in {"try_read_char", "read_line", "read_line_to", "parse", "skip"}
        /\ res.tag = "End") => entry = Len(buf)
    /\ op.name = "try_parse_empty_line"
        => (res.tag = "End" <=> AllSpaces(buf, entry))
    /\ op.name = "try_skip_initial_spaces"
        => (res.tag = "End" <=> (AllSpaces(buf, entry) /\ Len(buf) - entry <= 4))
    /\ (op.name \in {"try_read_char", "read_line", "read_line_to", "skip"}
        /\ entry < Len(buf)) => res.tag \in {"Success", "NoParse"}

\* try_skip_initial_spaces stepped over four spaces up to the end of the
\* buffer and returned End.
C4_Witness ==
    /\ op.name = "try_skip_initial_spaces"
    /\ res.tag = "End"
    /\ Len(buf) - entry = 4
    /\ entry > 0

\* C5: first_of! evaluates its alternatives left to right, returns the first
\* outcome that is not NoParse (End included), evaluates nothing after it,
\* and returns NoParse only when every alternative returned NoParse.
C5_LeftBiased ==
    altChain # << >>
        => LET n == Len(altTrace)
           IN  /\ n >= 1
               /\ n <= Len(altChain)
               /\ altTrace = [i \in 1..n |-> i]
               /\ \A i \in 1..(n - 1) : altChain[i].tag = "NoParse"
               /\ altRes = altChain[n]
               /\ altChain[n].tag = "NoParse" => n = Len(altChain)
               /\ altRes.tag = "NoParse"
                    <=> \A i \in 1..Len(altChain) : altChain[i].tag = "NoParse"

\* End in second place wins over a later Success, which is never evaluated.
C5_Witness ==
    /\ Len(altChain) >= 3
    /\ altChain[1].tag = "NoParse"
    /\ altChain[2].tag = "End"
    /\ altChain[3].tag = "Success"
    /\ altRes.tag = "End"
    /\ altTrace = <<1, 2>>

\* C6: next() on a non-empty queue returns its oldest block without calling
\* parse_block or moving the cursor, parse_block is called only by a next()
\* that finds the queue empty, and the blocks pushed on the queue are
\* delivered exactly once, in the order they were pushed.
C6_QueueLog ==
    \A e \in Engines : engines[e].enq = engines[e].deq \o engines[e].event_queue

C6_NextStep ==
    \A e \in Engines :
        (last'.name = "next" /\ last'.eng = e)
            => IF engines[e].event_queue # << >>
               THEN /\ last'.out = Some(Head(engines[e].event_queue))
                    /\ engines'[e].event_queue = Tail(engines[e].event_queue)
                    /\ engines'[e].deq = Append(engines[e].deq, Head(engines[e].event_queue))
                    /\ engines'[e].pos = engines[e].pos
                    /\ ~last'.invoked
               ELSE /\ last'.invoked
                    /\ engines'[e].deq = engines[e].deq

C6_Fifo == [](C6_QueueLog) /\ [][C6_NextStep]_vars

\* Two blocks were queued and next() has handed out the first of them.
C6_Witness ==
    /\ last.name = "next"
    /\ ~last.invoked
    /\ last.out = Some("item1")
    /\ engines[1].enq = <<"item1", "item2">>
    /\ engines[1].event_queue = <<"item2">>
    /\ engines[1].pos > 0

\* C7: when next() finds the queue empty, Success(b) from parse_block yields
\* b, End ends the sequence, and NoParse aborts: it is forwarded neither as
\* an item nor as the end of the sequence.
C7_OutcomeMapping ==
    (last.name = "next" /\ last.invoked)
        => /\ last.pb.tag = "Success" => last.out = Some(last.pb.val)
           /\ last.pb.tag = "End" => last.out = None
           /\ last.pb.tag = "NoParse" => last.out = Aborted

\* parse_block answered NoParse and next() aborted.
C7_Witness ==
    /\ last.name = "next"
    /\ last.invoked
    /\ last.pb.tag = "NoParse"
    /\ last.out = Aborted

\* C8: fork returns an engine at position 0 over the given region, with an
\* empty queue, no link table and the parent's configuration, and leaves
\* every existing engine as it was; a call on one engine leaves the position
\* and the queue of every other engine unchanged.
C8_ForkStep ==
    IF last'.name = "fork"
    THEN LET child == engines'[Len(engines')]
             parent == engines[last'.eng]
         IN  /\ Len(engines') = Len(engines) + 1
             /\ child.buf = last'.arg
             /\ child.pos = 0
             /\ child.event_queue = << >>
             /\ ~child.link_map.some
             /\ child.config = parent.config
             /\ \A e \in Engines : engines'[e] = engines[e]
    ELSE /\ Len(engines') = Len(engines)
         /\ \A e \in Engines :
                e # last'.eng
                    => /\ engines'[e].pos = engines[e].pos
                       /\ engines'[e].event_queue = engines[e].event_queue
                       /\ engines'[e].link_map = engines[e].link_map

C8_ForkDisjoint == [][C8_ForkStep]_vars

\* A child forked from a configured parent with blocks pending has moved its
\* own cursor and filled its own queue.
C8_Witness ==
    /\ Len(engines) >= 2
    /\ last.name = "next"
    /\ last.eng = 2
    /\ engines[2].pos > 0
    /\ engines[2].event_queue # << >>
    /\ engines[2].config = "custom"
    /\ engines[1].pos = 0
    /\ engines[1].event_queue = << >>

\* C9: over a full parse by the root engine a reference whose label is
\* defined somewhere in the buffer is delivered resolved, whether the
\* definition comes before or after it.
C9_OrderIndependent ==
    \A e \in Engines :
        (/\ engines[e].root
         /\ last.name = "next"
         /\ last.eng = e
         /\ \E i \in 1..Len(engines[e].buf) : engines[e].buf[i] = "D")
            => last.out # Some("ref:foo")

\* C10: an engine has a link table if and only if it was made by new, and
\* next() on a forked engine never delivers a resolved reference.
C10_TableOnlyAtRoot ==
    /\ \A e \in Engines : engines[e].link_map.some <=> engines[e].root
    /\ (last.name = "next" /\ ~engines[last.eng].root) => last.out # Some("link:/url")

\* A fork of a fork parsed a definition and a reference and delivered the
\* reference unresolved while the root's table holds the definition.
C10_Witness ==
    /\ Len(engines) = 3
    /\ engines[3].depth = 2
    /\ engines[3].buf = <<"D", "R">>
    /\ last.name = "next"
    /\ last.eng = 3
    /\ last.out = Some("ref:foo")
    /\ engines[1].link_map.tbl # {}
    /\ engines[1].config = "custom"

\* The number of spaces at p.
SpacesAt(b, p) == RunLen(b, p, {SP})

\* C11 as stated: on input that begins with exactly k spaces,
\* try_skip_initial_spaces succeeds consuming k bytes for k <= 3 and returns
\* NoParse with the cursor restored for k >= 4.
C11_IndentSkip ==
    op.name = "try_skip_initial_spaces"
        => LET k == SpacesAt(buf, entry)
           IN  /\ k <= 3 => (res.tag = "Success" /\ pos = entry + k)
               /\ k >= 4 => (res.tag = "NoParse" /\ pos = entry)

\* C11 amended: with exactly k spaces at the current position,
\* try_skip_initial_spaces succeeds consuming k bytes when k <= 3 and a
\* further byte follows the spaces, returns NoParse with the cursor restored
\* when k >= 4 and at least five bytes remain, and returns End with the
\* cursor restored when the spaces run to the end of the buffer and k <= 4.
C11_IndentSkipAmended ==
    op.name = "try_skip_initial_spaces"
        => LET k == SpacesAt(buf, entry)
               r == Len(buf) - entry
           IN  /\ (k <= 3 /\ k < r) => (res.tag = "Success" /\ pos = entry + k)
               /\ (k >= 4 /\ r >= 5) => (res.tag = "NoParse" /\ pos = entry)
               /\ (k = r /\ k <= 4) => (res.tag = "End" /\ pos = entry)

\* Four spaces and a further byte: NoParse with the cursor restored.
C11_Witness ==
    /\ op.name = "try_skip_initial_spaces"
    /\ SpacesAt(buf, entry) = 4
    /\ Len(buf) - entry = 5
    /\ res.tag = "NoParse"
    /\ pos = entry

\* C12: try_parse_empty_line returns Success if and only if the bytes up to
\* the next newline are all spaces and the newline exists, and then leaves
\* the cursor just past the newline; a byte other than space or newline in
\* front of the newline gives NoParse with the cursor at its entry position.
C12_BlankLine ==
    op.name = "try_parse_empty_line"
        => LET stop == entry + SpacesAt(buf, entry)
           IN  /\ res.tag = "Success" <=> (stop < Len(buf) /\ buf[stop + 1] = NL)
               /\ res.tag = "Success" => pos = stop + 1
               /\ (stop < Len(buf) /\ buf[stop + 1] # NL)
                    => (res.tag = "NoParse" /\ pos = entry)

\* A line of spaces in the middle of the buffer was consumed with its newline.
C12_Witness ==
    /\ op.name = "try_parse_empty_line"
    /\ res.tag = "Success"
    /\ entry > 0
    /\ pos >= entry + 3
    /\ pos < Len(buf)

\* C13: lookahead_chars(n, c) leaves the cursor where it was, and answers
\* true if and only if at least n bytes remain and the next n bytes equal c.
C13_Lookahead ==
    op.name = "lookahead_chars"
        => LET n == op.arg[1]
               c == op.arg[2]
           IN  /\ pos = entry
               /\ res.tag = "true"
                    <=> /\ Len(buf) - entry >= n
                        /\ \A i \in 1..n : buf[entry + i] = c

\* Two or more bytes were looked at, away from the start, and matched.
C13_Witness ==
    /\ op.name = "lookahead_chars"
    /\ op.arg[1] >= 2
    /\ entry > 0
    /\ res.tag = "true"

\* C14: read_line and read_line_to called with input available return
\* Success having consumed at least one byte, with the cursor just past the
\* first newline at or after the entry position, or at the end of the buffer
\* when there is none; they never return NoParse.
C14_ReadLine ==
    op.name \in {"read_line", "read_line_to"}
        => LET nl == entry + RunLen(buf, entry, Bytes \ {NL})
           IN  /\ res.tag # "NoParse"
               /\ entry < Len(buf)
                    => /\ res.tag = "Success"
                       /\ pos > entry
                       /\ pos = IF nl < Len(buf) THEN nl + 1 ELSE Len(buf)
                       /\ op.name = "read_line_to" => res.val = SubSeq(buf, entry + 1, pos)

\* A line of two bytes or more, newline included, was read short of the end.
C14_Witness ==
    /\ op.name = "read_line_to"
    /\ res.tag = "Success"
    /\ entry > 0
    /\ pos >= entry + 2
    /\ buf[pos] = NL
    /\ pos < Len(buf)

\* C15: a Success of parse never carries an empty slice.
C15_NoEmptyMatch ==
    (op.name = "parse" /\ res.tag = "Success") => Len(res.val) >= 1

\* C18: from the same state skip and parse both return End when no input is
\* available; otherwise skip returns Success with the cursor at entry plus
\* the length of the maximal matching run, where parse leaves it too.
C18_SkipLikeParse ==
    op.name = "skip"
        => LET k == RunLen(buf, entry, op.arg)
               p == parse(buf, entry, op.arg)
           IN  /\ res.tag # "NoParse"
               /\ entry >= Len(buf) => (res.tag = "End" /\ p.res.tag = "End")
               /\ entry < Len(buf)
                    => /\ res = Success(Unit)
                       /\ pos = entry + k
                       /\ p.res.tag \in {"Success", "NoParse"}
                       /\ p.pos = pos

\* C20: whenever try_parse_empty_line or try_skip_initial_spaces returns End,
\* the cursor is at its entry position.
C20_ExhaustedRollsBack ==
    (/\ op.name \in {"try_parse_empty_line", "try_skip_initial_spaces"}
     /\ res.tag = "End")
        => pos = entry

\* try_parse_empty_line stepped over spaces up to the end of the buffer.
C20_Witness ==
    /\ op.name = "try_parse_empty_line"
    /\ res.tag = "End"
    /\ entry > 0
    /\ Len(buf) - entry >= 2

\* C16: while marks are resolved youngest first, dropping an uncommitted
\* mark sets the cursor to the position at which the mark was made, and
\* cancelling a mark leaves the cursor where it is and removes the mark, so
\* that it restores nothing afterwards.
C16_NestedMarks ==
    nested
        => /\ op.name = "drop"
                => (pos = op.arg.born /\ Len(marks) = op.arg.live - 1)
           /\ op.name = "cancel"
                => (pos = entry /\ Len(marks) = op.arg.live - 1)

\* An inner mark was dropped after the cursor had moved away from it, an
\* outer mark being still alive.
C16_Witness ==
    /\ nested
    /\ op.name = "drop"
    /\ op.arg.live = 2
    /\ entry # op.arg.born
    /\ marks[1].born < op.arg.born
    /\ pos = op.arg.born

\* C17: the cursor position stays between 0 and the buffer length, next()
\* answers true exactly when the position was below the length, and retract
\* saturates at zero.
C17_CursorBounds ==
    /\ pos >= 0
    /\ pos <= Len(buf)
    /\ available(buf, pos) <=> pos < Len(buf)
    /\ op.name = "next" => (res.tag = "true" <=> entry < Len(buf))
    /\ op.name = "retract" => pos = IF op.arg > entry THEN 0 ELSE entry - op.arg

\* next() was refused at the end of a non-empty buffer while a mark is alive.
C17_Witness ==
    /\ op.name = "next"
    /\ res.tag = "false"
    /\ Len(buf) > 0
    /\ pos = Len(buf)
    /\ marks # << >>

\* C19: mark A is made at p1, mark B at a later position p2 > p1, and the
\* two are dropped uncommitted in creation order, A first: no error is
\* signalled and the cursor ends at p2, not at p1.
C19_OutOfOrder ==
    (/\ op.name = "drop"
     /\ op.arg.after >= 0
     /\ op.arg.born > op.arg.after)
        => /\ res.tag # "Panic"
           /\ entry = op.arg.after
           /\ pos = op.arg.born
           /\ pos # op.arg.after
           /\ ~nested

\* A was dropped before B and the cursor stands at B's position.
C19_Witness ==
    /\ op.name = "drop"
    /\ op.arg.after >= 0
    /\ op.arg.born > op.arg.after
    /\ marks = << >>
    /\ pos = op.arg.born

====
